---- MODULE Spec2Model ----
(***************************************************************************)
(* EXODUS detector: a model of scripts/detector.py (argument handling and  *)
(* main_fct) and of scripts/file_utils.py (open_files, close_files and the *)
(* Source class).                                                          *)
(*                                                                         *)
(* Real numbers are kept as integers in hundredths (0.75 is 75); a median  *)
(* is kept doubled (in two-hundredths) so that the mean of the two middle  *)
(* elements stays an integer.  An optional value is a sequence: <<>> when  *)
(* unset (Python's None or an unbound name), <<v>> when set.               *)
(***************************************************************************)
EXTENDS Integers, Sequences, FiniteSets, TLC

\* ------------------------------------------------------------------ bounds
MaxTiles == 2
MaxMta == 2
PoolTiles == 5
MaxSources == 2
PNRows == 2
PNCols == 2
MosHalf == 1

\* ------------------------------------------------------------ input domains
Instruments == {"PN", "M1", "M2", "XX"}
Supported == {"PN", "M1", "M2"}
FileSystems == {"nodir", "dir", "dirvar"}
TileData == {0, 1, 2}
BoxSizes == {1}
DetectionLevels == {1}
RawRadii == {0, 1, 3}

None == <<>>
Some(x) == <<x>>

VARIABLES
    inst, novar, render, ds9, mta, bs, dl,
    outDir, varFile, data,
    pc, exitCode, abortCause, vf,
    logFile, logText, regFile,
    photonsCalled, gtiCalled,
    tstate, buf, results, arrivals, taskMedian, execCount, failedIn,
    v_matrix, mosaic, img_v, median, variable_areas, sources, rendered,
    srcs, call, skyCalled,
    tilesIn, data_v, recovered, header, dataP

argVars == <<inst, novar, render, ds9, mta, bs, dl, data>>
fileVars == <<outDir, varFile, logFile, logText, regFile>>
poolVars == <<tstate, buf, results, arrivals, taskMedian, execCount, failedIn>>
prodVars == <<v_matrix, mosaic, img_v, median, variable_areas, sources, rendered>>
ctlVars == <<pc, exitCode, abortCause, vf, photonsCalled, gtiCalled>>
objVars == <<srcs, call, skyCalled>>
imgVars == <<tilesIn, data_v, recovered, header, dataP>>
fixedVars == <<argVars, objVars, imgVars>>
runVars == <<argVars, fileVars, poolVars, prodVars, ctlVars>>
vars == <<runVars, objVars, imgVars>>

\* ------------------------------------------------------------------ helpers
Range(s) == {s[k] : k \in 1..Len(s)}
Min(a, b) == IF a < b THEN a ELSE b
N == Len(data)
Tiles == 1..N

\* What the operating system reports for exit(code): the low eight bits.
ExitStatus(code) == code % 256

\* Exit codes as written in the source.
OpenFilesExit == -1
PhotonsExitAsOpenFiles == OpenFilesExit
PhotonsExit == -2
GtiExit == -2

\* The floor of the median, 0.75, in hundredths.
MedianFloor == 75

RECURSIVE Flatten(_)
Flatten(ms) == IF ms = <<>> THEN <<>> ELSE Head(ms) \o Flatten(Tail(ms))

\* ------------------------------------------------- external collaborators
\* variability_utils.variability_computation: the variability matrix of one
\* tile, here one pixel, as a pure function of the tile's events.
VariabilityComputation(d) == IF d = 0 THEN <<0>> ELSE IF d = 1 THEN <<70>> ELSE <<80>>

\* variability_utils.variable_areas_detection: the pixels of a tile whose box
\* sum exceeds dl * median * bs^2 (median doubled, so is the pixel value).
VariableAreasDetection(med2, b, d, m) ==
    {p \in 1..Len(m) : 2 * m[p] > d * med2 * b * b}

\* variability_utils.variable_sources_position: one source per flagged pixel,
\* in ascending tile order.
RECURSIVE SourcesOf(_, _)
SourcesOf(areas, k) ==
    IF k > Len(areas) THEN <<>>
    ELSE (IF areas[k] = {} THEN <<>> ELSE <<k>>) \o SourcesOf(areas, k + 1)

\* ---------------------------------------------------------- np.median, clamp
CountBelow(s, v) == Cardinality({k \in 1..Len(s) : s[k] < v})
CountUpTo(s, v) == Cardinality({k \in 1..Len(s) : s[k] <= v})
\* The k-th smallest element of s.
Kth(s, k) == CHOOSE v \in Range(s) : CountBelow(s, v) < k /\ k <= CountUpTo(s, v)
\* Twice np.median of the flattened matrices.
Median2(ms) ==
    LET s == Flatten(ms)
        len == Len(s)
    IN IF len % 2 = 1 THEN 2 * Kth(s, (len + 1) \div 2)
       ELSE Kth(s, len \div 2) + Kth(s, len \div 2 + 1)

ClampMedianNoFloor(m2) == m2
\* detector.py 240-241: if median < 0.75: median = 0.75
ClampMedian(m2) == IF m2 < 2 * MedianFloor THEN 2 * MedianFloor ELSE m2

\* ------------------------------------------------------ multiprocessing.Pool
\* Pool.map cuts the n tiles into chunks of consecutive tiles; a worker
\* fetches one chunk at a time and runs its tiles in order.
ChunkSize(n, m) ==
    LET q == n \div (4 * m)
        r == n % (4 * m)
    IN IF r # 0 THEN q + 1 ELSE q
CS == ChunkSize(N, mta)
ChunkOf(i) == ((i - 1) \div CS) + 1
FirstOf(c) == (c - 1) * CS + 1
LastOf(c) == Min(c * CS, N)
Chunks == 1..ChunkOf(N)
ChunkTiles(c) == FirstOf(c)..LastOf(c)

Running == {i \in Tiles : tstate[i] = "running"}
Executed == {i \in Tiles : tstate[i] \in {"done", "failed"}}
Finished == {i \in Tiles : tstate[i] \in {"done", "failed", "skipped"}}
InMap == pc \in {"map1", "map2"}

CanFetchOneMore(running, m) == Cardinality(running) <= m
\* Pool(args.mta): a worker is free when fewer than mta chunks are running.
CanFetch(running, m) == Cardinality(running) < m

PlaceResultOnArrival(res, c, k, vals) ==
    [i \in DOMAIN res |->
        IF i >= FirstOf(k) /\ FirstOf(c) + (i - FirstOf(k)) <= LastOf(c)
        THEN vals[FirstOf(c) + (i - FirstOf(k))] ELSE res[i]]
\* MapResult._set: chunk c's values go to the slice of chunk c, whatever the
\* number k of the arrival.
PlaceResult(res, c, k, vals) ==
    [i \in DOMAIN res |-> IF i \in ChunkTiles(c) THEN vals[i] ELSE res[i]]

MapReadyOnFirstResult(t) == \E i \in DOMAIN t : t[i] = "done"
MapReadyIgnoringFailures(t) == \A i \in DOMAIN t : t[i] \in {"done", "failed", "skipped"}
\* Pool.map returns the list once every tile's result has arrived.
MapReady(t) == \A i \in DOMAIN t : t[i] = "done"

\* The value a task computes for tile i in the stage the pool is in.
TaskValue(i) ==
    IF pc = "map1" THEN VariabilityComputation(data[i])
    ELSE VariableAreasDetection(median[1], bs, dl, v_matrix[i])

\* A fresh map over the n tiles.
Submit ==
    /\ tstate' = [i \in Tiles |-> "pending"]
    /\ buf' = [i \in Tiles |-> None]
    /\ results' = [i \in Tiles |-> None]
    /\ arrivals' = <<>>
    /\ taskMedian' = [i \in Tiles |-> None]
    /\ execCount' = [i \in Tiles |-> 0]

\* -------------------------------------------------------------------- Init
InitRun ==
    /\ pc = "start"
    /\ exitCode = None
    /\ abortCause = "none"
    /\ vf = FALSE
    /\ logFile = "absent"
    /\ logText = {}
    /\ regFile = FALSE
    /\ photonsCalled = FALSE
    /\ gtiCalled = FALSE
    /\ tstate = [i \in Tiles |-> "pending"]
    /\ buf = [i \in Tiles |-> None]
    /\ results = [i \in Tiles |-> None]
    /\ arrivals = <<>>
    /\ taskMedian = [i \in Tiles |-> None]
    /\ execCount = [i \in Tiles |-> 0]
    /\ failedIn = {}
    /\ v_matrix = <<>>
    /\ mosaic = None
    /\ img_v = None
    /\ median = None
    /\ variable_areas = <<>>
    /\ sources = None
    /\ rendered = {}

\* No Source object exists yet.
InitObjects ==
    /\ srcs = [k \in 1..MaxSources |-> None]
    /\ call = [op |-> "none", src |-> 0, input |-> "none", unsetBefore |-> FALSE,
               killed |-> FALSE, raised |-> ""]
    /\ skyCalled = {}

\* No mosaic was assembled and no transformation applied on its own.
InitImages ==
    /\ tilesIn = <<>>
    /\ data_v = None
    /\ recovered = None
    /\ header = None
    /\ dataP = None

Init ==
    /\ inst \in Instruments
    /\ novar \in BOOLEAN
    /\ render \in BOOLEAN
    /\ ds9 \in BOOLEAN
    /\ mta \in 1..MaxMta
    /\ bs \in BoxSizes
    /\ dl \in DetectionLevels
    /\ \E fs \in FileSystems :
        /\ outDir = (fs # "nodir")
        /\ varFile = IF fs = "dirvar" THEN "old" ELSE "absent"
    /\ \E n \in 1..MaxTiles : data \in [1..n -> TileData]
    /\ InitRun
    /\ InitObjects
    /\ InitImages

\* One configuration, more tiles: the two parallel stages at work.
InitPool ==
    /\ inst = "PN"
    /\ novar = FALSE
    /\ render = FALSE
    /\ ds9 = FALSE
    /\ mta \in 1..MaxMta
    /\ bs \in BoxSizes
    /\ dl \in DetectionLevels
    /\ outDir = TRUE
    /\ varFile = "absent"
    /\ \E n \in 1..PoolTiles : data = [i \in 1..n |-> (i - 1) % 3]
    /\ InitRun
    /\ InitObjects
    /\ InitImages

\* --------------------------------------------------------------- main_fct
\* exit(code)
Exit(code, cause) ==
    /\ pc' = "exited"
    /\ exitCode' = Some(ExitStatus(code))
    /\ abortCause' = cause

\* An exception nothing catches: traceback, exit status 1.
Crash(cause) ==
    /\ pc' = "crashed"
    /\ exitCode' = Some(1)
    /\ abortCause' = cause

\* file_utils.open_files, then sys.stdout = Tee(sys.stdout, log_f).
OpenFiles ==
    /\ pc = "start"
    /\ \E mk \in BOOLEAN, op \in BOOLEAN :
        IF ~outDir /\ ~mk
        THEN \* os.makedirs raises: exit(-1)
            /\ Exit(OpenFilesExit, "dir")
            /\ UNCHANGED fileVars
        ELSE
            /\ outDir' = TRUE
            /\ IF op
               THEN /\ logFile' = "open"
                    /\ logText' = {}
                    /\ pc' = "novar"
                    /\ UNCHANGED <<exitCode, abortCause>>
               ELSE \* IOError: close_files, then print_help, a name that
                    \* file_utils never defines: NameError, uncaught
                    /\ Crash("log")
                    /\ UNCHANGED <<logFile, logText>>
            /\ UNCHANGED <<varFile, regFile>>
    /\ UNCHANGED <<fixedVars, poolVars, prodVars, vf, photonsCalled, gtiCalled>>

\* detector.py 136-149
CheckNovar ==
    /\ pc = "novar"
    /\ vf' = (novar /\ varFile # "absent")
    /\ logText' = logText \cup (IF novar THEN {"checking"} ELSE {})
    /\ pc' = IF ~novar /\ ~vf' THEN "photons" ELSE "render"
    /\ UNCHANGED <<fixedVars, outDir, varFile, logFile, regFile, poolVars, prodVars,
                   exitCode, abortCause, photonsCalled, gtiCalled>>

AbortExtractionAndGoOn(cause, code, msg) ==
    /\ logText' = logText \cup {msg, "abort_" \o cause}
    /\ logFile' = "closed"
    /\ pc' = "submit1"
    /\ exitCode' = exitCode
    /\ abortCause' = cause
\* detector.py 160-162 and 182-184: print, close_files, exit
AbortExtraction(cause, code, msg) ==
    /\ logText' = logText \cup {msg, "abort_" \o cause}
    /\ logFile' = "closed"
    /\ Exit(code, cause)

\* detector.py 152-162
ExtractPhotons ==
    /\ pc = "photons"
    /\ IF inst \notin Supported
       THEN \* args.evts was never set: AttributeError before the call
            /\ AbortExtraction("photons", PhotonsExit, "recovering")
            /\ UNCHANGED photonsCalled
       ELSE /\ photonsCalled' = TRUE
            /\ \E ok \in BOOLEAN :
                IF ok
                THEN /\ pc' = "gti"
                     /\ logText' = logText \cup {"recovering"}
                     /\ UNCHANGED <<logFile, exitCode, abortCause>>
                ELSE AbortExtraction("photons", PhotonsExit, "recovering")
    /\ UNCHANGED <<fixedVars, outDir, varFile, regFile, poolVars, prodVars, vf, gtiCalled>>

\* detector.py 177-184
ExtractGti ==
    /\ pc = "gti"
    /\ gtiCalled' = TRUE
    /\ \E ok \in BOOLEAN :
        IF ok
        THEN /\ pc' = "submit1"
             /\ logText' = logText \cup {"extracting"}
             /\ UNCHANGED <<logFile, exitCode, abortCause>>
        ELSE AbortExtraction("gti", GtiExit, "extracting")
    /\ UNCHANGED <<fixedVars, outDir, varFile, regFile, poolVars, prodVars, vf, photonsCalled>>

\* detector.py 187-200: Pool(args.mta), p.map(var_calc_partial, data) called
SubmitVariability ==
    /\ pc = "submit1"
    /\ Submit
    /\ pc' = "map1"
    /\ logText' = logText \cup {"computing"}
    /\ UNCHANGED <<fixedVars, outDir, varFile, logFile, regFile, failedIn,
                   prodVars, exitCode, abortCause, vf, photonsCalled, gtiCalled>>

\* A free worker takes the next chunk off the task queue and starts its
\* first tile.
WorkerFetch(c) ==
    /\ InMap
    /\ tstate[FirstOf(c)] = "pending"
    /\ \A b \in Chunks : b < c => tstate[FirstOf(b)] # "pending"
    /\ CanFetch(Running, mta)
    /\ tstate' = [tstate EXCEPT ![FirstOf(c)] = "running"]
    /\ taskMedian' = [taskMedian EXCEPT ![FirstOf(c)] = IF pc = "map2" THEN median ELSE None]
    /\ execCount' = [execCount EXCEPT ![FirstOf(c)] = @ + 1]
    /\ UNCHANGED <<fixedVars, fileVars, buf, results, arrivals, failedIn, prodVars, ctlVars>>

\* The worker's call of the task function on tile i returns or raises; at
\* the end of the chunk the chunk's outcome goes back to the parent.
WorkerRun(i) ==
    /\ InMap
    /\ tstate[i] = "running"
    /\ \E ok \in BOOLEAN :
        LET c == ChunkOf(i) IN
        IF ok
        THEN /\ buf' = [buf EXCEPT ![i] = Some(TaskValue(i))]
             /\ IF i = LastOf(c)
                THEN /\ tstate' = [tstate EXCEPT ![i] = "done"]
                     /\ arrivals' = Append(arrivals, c)
                     /\ results' = IF \E j \in Tiles : tstate[j] = "failed"
                                   THEN results
                                   ELSE PlaceResult(results, c, Len(arrivals) + 1, buf')
                     /\ UNCHANGED <<taskMedian, execCount>>
                ELSE /\ tstate' = [tstate EXCEPT ![i] = "done", ![i + 1] = "running"]
                     /\ taskMedian' = [taskMedian EXCEPT
                                          ![i + 1] = IF pc = "map2" THEN median ELSE None]
                     /\ execCount' = [execCount EXCEPT ![i + 1] = @ + 1]
                     /\ UNCHANGED <<arrivals, results>>
             /\ UNCHANGED failedIn
        ELSE /\ tstate' = [j \in Tiles |->
                              IF j = i THEN "failed"
                              ELSE IF j \in ChunkTiles(c) /\ j > i THEN "skipped"
                              ELSE tstate[j]]
             /\ arrivals' = Append(arrivals, c)
             /\ failedIn' = failedIn \cup {pc}
             /\ UNCHANGED <<buf, results, taskMedian, execCount>>
    /\ UNCHANGED <<fixedVars, fileVars, prodVars, ctlVars>>

\* p.map re-raises a task's exception once every chunk has come back;
\* main_fct does not catch it.
MapRaise ==
    /\ InMap
    /\ Finished = Tiles
    /\ \E i \in Tiles : tstate[i] = "failed"
    /\ Crash("task")
    /\ UNCHANGED <<fixedVars, fileVars, poolVars, prodVars, vf, photonsCalled, gtiCalled>>

\* detector.py 200: v_matrix = p.map(...)
MapReturnVariability ==
    /\ pc = "map1"
    /\ MapReady(tstate)
    /\ v_matrix' = [i \in Tiles |-> IF results[i] = None THEN <<>> ELSE results[i][1]]
    /\ pc' = "config"
    /\ UNCHANGED <<fixedVars, fileVars, poolVars, mosaic, img_v, median, variable_areas,
                   sources, rendered, exitCode, abortCause, vf, photonsCalled, gtiCalled>>

\* detector.py 203-228: mosaic by instrument, then the transformation
ApplyConfig ==
    /\ pc = "config"
    /\ IF inst \in Supported
       THEN /\ mosaic' = Some([config |-> inst, tiles |-> v_matrix])
            /\ img_v' = Some(IF inst = "PN" THEN "PN" ELSE "MOS")
            /\ pc' = "median"
            /\ UNCHANGED <<exitCode, abortCause>>
       ELSE \* data_vm is unbound
            /\ Crash("config")
            /\ UNCHANGED <<mosaic, img_v>>
    /\ UNCHANGED <<fixedVars, fileVars, poolVars, v_matrix, median, variable_areas,
                   sources, rendered, vf, photonsCalled, gtiCalled>>

\* detector.py 234-251: global median, its floor, p.map(..., v_matrix) called
ComputeMedian ==
    /\ pc = "median"
    /\ median' = Some(ClampMedian(Median2(v_matrix)))
    /\ logText' = logText \cup {"detecting"}
    /\ Submit
    /\ pc' = "map2"
    /\ UNCHANGED <<fixedVars, outDir, varFile, logFile, regFile, failedIn,
                   v_matrix, mosaic, img_v, variable_areas, sources, rendered,
                   exitCode, abortCause, vf, photonsCalled, gtiCalled>>

\* detector.py 251: variable_areas = p.map(...)
MapReturnDetection ==
    /\ pc = "map2"
    /\ MapReady(tstate)
    /\ variable_areas' = [i \in Tiles |-> IF results[i] = None THEN {} ELSE results[i][1]]
    /\ pc' = "positions"
    /\ UNCHANGED <<fixedVars, fileVars, poolVars, v_matrix, mosaic, img_v, median,
                   sources, rendered, exitCode, abortCause, vf, photonsCalled, gtiCalled>>

\* detector.py 252-254: variable_sources_position writes the region file
SourcesPosition ==
    /\ pc = "positions"
    /\ sources' = Some(SourcesOf(variable_areas, 1))
    /\ regFile' = TRUE
    /\ logText' = logText \cup {"sources"}
    /\ pc' = "write"
    /\ UNCHANGED <<fixedVars, outDir, varFile, logFile, poolVars, v_matrix, mosaic, img_v,
                   median, variable_areas, rendered, exitCode, abortCause, vf,
                   photonsCalled, gtiCalled>>

\* detector.py 257: fits_writer(img_v, sources, args.img, params, var_f)
FitsWriter ==
    /\ pc = "write"
    /\ varFile' = "new"
    /\ pc' = "render"
    /\ UNCHANGED <<fixedVars, outDir, logFile, logText, regFile, poolVars, prodVars,
                   exitCode, abortCause, vf, photonsCalled, gtiCalled>>

\* detector.py 264-277: the renderers read var_f; then the log is closed
RenderAndEnd ==
    /\ pc = "render"
    /\ rendered' = (IF render THEN {<<"render", varFile>>} ELSE {})
                   \cup (IF ds9 THEN {<<"ds9", varFile>>} ELSE {})
    /\ logText' = logText \cup (IF render THEN {"rendering"} ELSE {}) \cup {"total"}
    /\ logFile' = "closed"
    /\ pc' = "done"
    /\ exitCode' = Some(0)
    /\ UNCHANGED <<fixedVars, outDir, varFile, regFile, poolVars, v_matrix, mosaic, img_v,
                   median, variable_areas, sources, abortCause, vf, photonsCalled, gtiCalled>>

Next ==
    \/ OpenFiles
    \/ CheckNovar
    \/ ExtractPhotons
    \/ ExtractGti
    \/ SubmitVariability
    \/ \E c \in Chunks : WorkerFetch(c)
    \/ \E i \in Tiles : WorkerRun(i)
    \/ MapRaise
    \/ MapReturnVariability
    \/ ApplyConfig
    \/ ComputeMedian
    \/ MapReturnDetection
    \/ SourcesPosition
    \/ FitsWriter
    \/ RenderAndEnd

Spec == Init /\ [][Next]_vars
SpecPool == InitPool /\ [][Next]_vars
\* The workers and the parent are processes the system keeps scheduling.
FairPool == SpecPool /\ WF_vars(Next)

\* ------------------------------------------------------ file_utils.Source
SkyFields == {"x", "y", "ra", "dec"}
RadiusFields == {"rawr", "skyr", "r", "var_rawr", "var_skyr", "var_r"}

SourceInitComputingX(src) ==
    [id_src |-> src[1], inst |-> src[2], ccd |-> src[3],
     rawx |-> src[4], rawy |-> src[5], rawr |-> src[6], vcount |-> src[7],
     x |-> Some(src[4]), y |-> Some(src[5]),
     skyr |-> src[6] * 64,
     ra |-> None, dec |-> None,
     r |-> (src[6] * 64) * 5,
     var_rawx |-> src[4] + 3, var_rawy |-> src[5] + 3, var_rawr |-> src[6],
     var_x |-> None, var_y |-> None,
     var_skyr |-> src[6] * 64,
     var_ra |-> None, var_dec |-> None,
     var_r |-> (src[6] * 64) * 5]
\* Source.__init__; r and var_r, skyr * 0.05, are kept in hundredths.
SourceInit(src) ==
    [id_src |-> src[1], inst |-> src[2], ccd |-> src[3],
     rawx |-> src[4], rawy |-> src[5], rawr |-> src[6], vcount |-> src[7],
     x |-> None, y |-> None,
     skyr |-> src[6] * 64,
     ra |-> None, dec |-> None,
     r |-> (src[6] * 64) * 5,
     var_rawx |-> src[4] + 3, var_rawy |-> src[5] + 3, var_rawr |-> src[6],
     var_x |-> None, var_y |-> None,
     var_skyr |-> src[6] * 64,
     var_ra |-> None, var_dec |-> None,
     var_r |-> (src[6] * 64) * 5]

\* The lines edet2sky prints when all goes well: the banner, then the two
\* headers each followed by a line of two numbers.
WellFormed == <<"banner", "ra_hdr", "pair", "xy_hdr", "pair">>
RECURSIVE Pick(_, _, _)
Pick(s, keep, k) ==
    IF k > Len(s) THEN <<>>
    ELSE (IF k \in keep THEN <<s[k]>> ELSE <<>>) \o Pick(s, keep, k + 1)
\* What the subprocess may print instead: any of these lines missing.
Responses == {Pick(WellFormed, keep, 1) : keep \in SUBSET (1..Len(WellFormed))}

\* Not an output: communicate did not return within the 15 seconds.
TimedOut == <<"timeout">>

\* np.where(det2sky == marker)[0][0], 1-based; 0 when the marker is absent
\* (where Python raises IndexError).
IndexOf(txt, marker) ==
    IF \E k \in 1..Len(txt) : txt[k] = marker
    THEN CHOOSE k \in 1..Len(txt) : txt[k] = marker /\ \A j \in 1..(k - 1) : txt[j] # marker
    ELSE 0

\* a, b = det2sky[i + 1].split(): IndexError past the end, ValueError unless
\* the line holds exactly two tokens.
TwoTokens(txt, i) ==
    IF i = 0 \/ i + 1 > Len(txt) THEN "IndexError"
    ELSE IF txt[i + 1] # "pair" THEN "ValueError"
    ELSE ""

LacksMarker(txt) == \E m \in {"banner", "ra_hdr", "xy_hdr"} : IndexOf(txt, m) = 0

\* Source.sky_coord from line 284 on, given the subprocess's output.
SkyCoordParse(s, txt) ==
    IF IndexOf(txt, "banner") = 0 THEN [obj |-> s, raised |-> "IndexError"]
    ELSE IF TwoTokens(txt, IndexOf(txt, "ra_hdr")) # ""
    THEN [obj |-> s, raised |-> TwoTokens(txt, IndexOf(txt, "ra_hdr"))]
    ELSE LET s1 == [s EXCEPT !.ra = Some("ra"), !.dec = Some("dec")] IN
         IF TwoTokens(txt, IndexOf(txt, "xy_hdr")) # ""
         THEN [obj |-> s1, raised |-> TwoTokens(txt, IndexOf(txt, "xy_hdr"))]
         ELSE [obj |-> [s1 EXCEPT !.x = Some("x"), !.y = Some("y")], raised |-> ""]

SkyUnset(s) == \A f \in SkyFields : s[f] = None

\* Source(src)
Construct(k) ==
    /\ srcs[k] = None
    /\ \E rawr \in RawRadii :
        srcs' = [srcs EXCEPT ![k] = Some(SourceInit(<<k, "PN", 1, 0, 0, rawr, 0>>))]
    /\ call' = [op |-> "init", src |-> k, input |-> "none", unsetBefore |-> FALSE,
                killed |-> FALSE, raised |-> ""]
    /\ UNCHANGED <<runVars, imgVars, skyCalled>>

\* Source.sky_coord. communicate(timeout=15) returns the output or raises
\* subprocess.TimeoutExpired; the except clause names TimeoutExpired, which
\* file_utils never imports, so matching it raises NameError and the handler
\* (process.kill()) does not run.
SkyCoord(k) ==
    /\ srcs[k] # None
    /\ skyCalled' = skyCalled \cup {k}
    /\ \E txt \in Responses \cup {TimedOut} :
        IF txt = TimedOut
        THEN /\ call' = [op |-> "sky_coord", src |-> k, input |-> "timeout",
                         unsetBefore |-> SkyUnset(srcs[k][1]),
                         killed |-> FALSE, raised |-> "NameError"]
             /\ UNCHANGED srcs
        ELSE LET res == SkyCoordParse(srcs[k][1], txt) IN
             /\ srcs' = [srcs EXCEPT ![k] = Some(res.obj)]
             /\ call' = [op |-> "sky_coord", src |-> k,
                         input |-> IF LacksMarker(txt) THEN "nomarker"
                                   ELSE IF res.raised # "" THEN "malformed" ELSE "ok",
                         unsetBefore |-> SkyUnset(srcs[k][1]),
                         killed |-> FALSE, raised |-> res.raised]
    /\ UNCHANGED <<runVars, imgVars>>

\* read_sources_from_file: Source(...) with five arguments where __init__
\* takes one, TypeError at the first data line; no object is made.
ReadSourcesFromFile ==
    /\ \E lines \in BOOLEAN :
        call' = [op |-> "read_sources", src |-> 0, input |-> "none", unsetBefore |-> FALSE,
                 killed |-> FALSE, raised |-> IF lines THEN "TypeError" ELSE ""]
    /\ UNCHANGED <<runVars, imgVars, srcs, skyCalled>>

NextSource ==
    \/ \E k \in 1..MaxSources : Construct(k)
    \/ \E k \in 1..MaxSources : SkyCoord(k)
    \/ ReadSourcesFromFile

\* The Source objects alone, beside a run that has not started.
InitSource ==
    /\ inst = "PN"
    /\ novar = FALSE
    /\ render = FALSE
    /\ ds9 = FALSE
    /\ mta = 1
    /\ bs \in BoxSizes
    /\ dl \in DetectionLevels
    /\ outDir = TRUE
    /\ varFile = "absent"
    /\ data = <<0>>
    /\ InitRun
    /\ InitObjects
    /\ InitImages

SpecSource == InitSource /\ [][NextSource]_vars

\* ------------------------------------------------- numpy on 2-D arrays
\* A matrix is a sequence of rows.
Rows(m) == Len(m)
Cols(m) == IF m = <<>> THEN 0 ELSE Len(m[1])
Reverse(s) == [i \in 1..Len(s) |-> s[Len(s) + 1 - i]]
Zeros(r, c) == [i \in 1..r |-> [j \in 1..c |-> 0]]
\* np.flipud
Flipud(m) == Reverse(m)
\* np.fliplr
Fliplr(m) == [i \in 1..Rows(m) |-> Reverse(m[i])]
\* np.flip with no axis: both axes
Flip(m) == Flipud(Fliplr(m))
\* m.T
Transpose(m) == [j \in 1..Cols(m) |-> [i \in 1..Rows(m) |-> m[i][j]]]
Rot90Clockwise(m) == Fliplr(Transpose(m))
\* np.rot90: a quarter turn counterclockwise
Rot90(m) == Transpose(Fliplr(m))
\* np.concatenate(..., axis=0)
ConcatAxis0(ms) == Flatten(ms)
\* np.concatenate((a, b, c), axis=1)
ConcatAxis1(a, b, c) == [i \in 1..Rows(a) |-> a[i] \o b[i] \o c[i]]
\* m[r1..r2, c1..c2], bounds included
Sub(m, r1, r2, c1, c2) ==
    [i \in 1..(r2 - r1 + 1) |-> [j \in 1..(c2 - c1 + 1) |-> m[r1 + i - 1][c1 + j - 1]]]

\* ------------------------------------------- PN_config, M1_config, M2_config
\* The tile counts (detector.py 87, 92, 97: ccdnb).
TileCount(i) == IF i = "PN" THEN 12 ELSE 7
\* A PN tile has 64 rows in the source (range(64), m[63 - j]), PNRows here; a
\* MOS tile is 600 x 600 beside corners of 300 x 600, 2*MosHalf and MosHalf
\* here.
TileRows(i) == IF i = "PN" THEN PNRows ELSE 2 * MosHalf
TileCols(i) == IF i = "PN" THEN PNCols ELSE 2 * MosHalf

\* ccds = [[8,7,6,9,10,11],[5,4,3,0,1,2]]
PNccds == << <<8, 7, 6, 9, 10, 11>>, <<5, 4, 3, 0, 1, 2>> >>

PN_configSecondRowUnflipped(dm) ==
    LET top == ConcatAxis0([b \in 1..6 |-> Flipud(dm[PNccds[1][b] + 1])])
    IN [i \in 1..Len(top) |->
           top[i] \o dm[PNccds[2][((i - 1) \div PNRows) + 1] + 1]
                       [PNRows - ((i - 1) % PNRows)]]
\* data_v.extend(np.flipud(...)) for the first row of CCDs, then each line i
\* gets m[63 - j] of the flipped CCD of the second row appended.
PN_config(dm) ==
    LET top == ConcatAxis0([b \in 1..6 |-> Flipud(dm[PNccds[1][b] + 1])])
    IN [i \in 1..Len(top) |->
           top[i] \o Flip(dm[PNccds[2][((i - 1) \div PNRows) + 1] + 1])
                       [PNRows - ((i - 1) % PNRows)]]

Corner == Zeros(MosHalf, 2 * MosHalf)
\* The three parts M1_config and M2_config share.
MosParts(dm) ==
    ConcatAxis1(
        ConcatAxis0(<<Corner, Transpose(dm[2]), Flip(Transpose(dm[7])), Corner>>),
        ConcatAxis0(<<Transpose(dm[3]), Flipud(dm[1]), Flip(Transpose(dm[6]))>>),
        ConcatAxis0(<<Corner, Transpose(dm[4]), Flip(Transpose(dm[5])), Corner>>))

\* np.rot90 of the three parts side by side
M1_config(dm) == Rot90(MosParts(dm))
\* np.flip of the three parts side by side
M2_config(dm) == Flip(MosParts(dm))

\* ---------------------------------------------- the inverse tile slicing
\* Where CCD c (0-based) sits in ccds: <<row of CCDs, place in the row>>.
PNPlace(c) ==
    CHOOSE q \in {1, 2} \X (1..6) : PNccds[q[1]][q[2]] = c
PNSlice(img, c) ==
    LET q == PNPlace(c)
        blk == Sub(img, (q[2] - 1) * PNRows + 1, q[2] * PNRows,
                   (q[1] - 1) * PNCols + 1, q[1] * PNCols)
    IN IF q[1] = 1 THEN Flipud(blk) ELSE Fliplr(blk)

\* CCD c (0-based) of a MOS mosaic whose outer turn has been undone: the
\* column band, the first line of the block, and how the block was laid.
MosPlace(c) ==
    IF c = 1 THEN <<1, MosHalf, "T">>
    ELSE IF c = 6 THEN <<1, 3 * MosHalf, "FT">>
    ELSE IF c = 2 THEN <<2, 0, "T">>
    ELSE IF c = 0 THEN <<2, 2 * MosHalf, "U">>
    ELSE IF c = 5 THEN <<2, 4 * MosHalf, "FT">>
    ELSE IF c = 3 THEN <<3, MosHalf, "T">>
    ELSE <<3, 3 * MosHalf, "FT">>
MosSlice(parts, c) ==
    LET q == MosPlace(c)
        side == 2 * MosHalf
        blk == Sub(parts, q[2] + 1, q[2] + side, (q[1] - 1) * side + 1, q[1] * side)
    IN IF q[3] = "T" THEN Transpose(blk)
       ELSE IF q[3] = "U" THEN Flipud(blk)
       ELSE Transpose(Flip(blk))
TileSlice(i, img, c) ==
    IF i = "PN" THEN PNSlice(img, c)
    ELSE IF i = "M1" THEN MosSlice(Rot90Clockwise(img), c)
    ELSE MosSlice(Flip(img), c)

\* ------------------------------------------------------- mosaic round trip
Label(i, t, r, c) == ((t - 1) * TileRows(i) + (r - 1)) * TileCols(i) + c
\* Every pixel of every tile with a value of its own.
Labelled(i) ==
    [t \in 1..TileCount(i) |->
        [r \in 1..TileRows(i) |-> [c \in 1..TileCols(i) |-> Label(i, t, r, c)]]]
\* All zero but one pixel.
Hot(i, t0, r0, c0) ==
    [t \in 1..TileCount(i) |->
        [r \in 1..TileRows(i) |->
            [c \in 1..TileCols(i) |-> IF t = t0 /\ r = r0 /\ c = c0 THEN 100 ELSE 0]]]
TileInputs(i) ==
    {Labelled(i)} \cup
    {Hot(i, t, r, c) : t \in 1..TileCount(i), r \in 1..TileRows(i), c \in 1..TileCols(i)}

\* detector.py 206-222: the mosaic of the instrument
ApplyMosaic ==
    /\ tilesIn # <<>>
    /\ data_v = None
    /\ data_v' = Some(IF inst = "PN" THEN PN_config(tilesIn)
                      ELSE IF inst = "M1" THEN M1_config(tilesIn)
                      ELSE M2_config(tilesIn))
    /\ UNCHANGED <<runVars, objVars, tilesIn, recovered, header, dataP>>

\* One CCD cut back out of the mosaic.
SliceTile(c) ==
    /\ data_v # None
    /\ recovered' = Some([ccd |-> c, tile |-> TileSlice(inst, data_v[1], c)])
    /\ UNCHANGED <<runVars, objVars, tilesIn, data_v, header, dataP>>

NextMosaic ==
    \/ ApplyMosaic
    \/ \E c \in 0..(TileCount(inst) - 1) : SliceTile(c)

InitMosaic ==
    /\ inst \in Supported
    /\ novar = FALSE
    /\ render = FALSE
    /\ ds9 = FALSE
    /\ mta = 1
    /\ bs \in BoxSizes
    /\ dl \in DetectionLevels
    /\ outDir = TRUE
    /\ varFile = "absent"
    /\ data = <<0>>
    /\ InitRun
    /\ InitObjects
    /\ tilesIn \in TileInputs(inst)
    /\ data_v = None
    /\ recovered = None
    /\ header = None
    /\ dataP = None

SpecMosaic == InitMosaic /\ [][NextMosaic]_vars

\* --------------------- data_transformation_PN, data_transformation_MOS
\* The canonical raster side, the MOS image side and the MOS padding total.
CanonicalSize == 648
MosPix == 500
MosPadTotal == 148

\* int(): truncation toward zero of n/d, d > 0
Trunc(n, d) == IF n >= 0 THEN n \div d ELSE -((-n) \div d)
\* int(a * s) with s = 648 / span, computed on the exact quotient
Scaled(a, span) == Trunc(a * CanonicalSize, span)

\* Header limits of one axis: legal limits (TLMIN, TLMAX) and projected
\* limits (TDMIN, TDMAX) inside them.
LegalLimits == {<<0, 648>>, <<1, 1000>>}
Coordinates == {0, 1, 100, 400, 500, 648, 1000}
AxisLimits ==
    {[lims |-> l, proj |-> <<a, b>>] : l \in LegalLimits, a \in Coordinates, b \in Coordinates}
Headers ==
    {h \in [x : AxisLimits, y : AxisLimits] :
        \A ax \in {h.x, h.y} :
            /\ ax.lims[1] <= ax.proj[1]
            /\ ax.proj[1] < ax.proj[2]
            /\ ax.proj[2] <= ax.lims[2]}

\* (int((proj[0] - lims[0])*s), int((lims[1] - proj[1])*s))
Inter(ax) ==
    <<Scaled(ax.proj[1] - ax.lims[1], ax.lims[2] - ax.lims[1]),
      Scaled(ax.lims[2] - ax.proj[2], ax.lims[2] - ax.lims[1])>>
\* pix = 648 - (pad[0] + pad[1])
PixPN(pad) == CanonicalSize - (pad[1] + pad[2])
\* num = int((148 - (inter[0] + inter[1]))/2);
\* pad = (inter[0] + num, 148 - (inter[0] + num))
PadMOS(inter) ==
    LET num == Trunc(MosPadTotal - (inter[1] + inter[2]), 2)
    IN <<inter[1] + num, MosPadTotal - (inter[1] + num)>>

\* skimage.transform.resize(dataR, shape): a raster of the shape asked for
Resize(shape) == shape
\* np.pad(dataT, (padY, padX)): ValueError on a negative width, else the
\* raster grown by the widths
NpPad(shape, padY, padX) ==
    IF \E w \in {padY[1], padY[2], padX[1], padX[2]} : w < 0
    THEN [raised |-> "ValueError", shape |-> None]
    ELSE [raised |-> "",
          shape |-> Some(<<shape[1] + padY[1] + padY[2], shape[2] + padX[1] + padX[2]>>)]

Transformed(padX, padY, dataT) ==
    [padX |-> padX, padY |-> padY, dataT |-> dataT, dataP |-> NpPad(dataT, padY, padX)]

data_transformation_PN(h) ==
    LET padX == Inter(h.x)
        padY == Inter(h.y)
    IN Transformed(padX, padY, Resize(<<PixPN(padY), PixPN(padX)>>))

data_transformation_MOS(h) ==
    Transformed(PadMOS(Inter(h.x)), PadMOS(Inter(h.y)), Resize(<<MosPix, MosPix>>))

\* detector.py 225-226
TransformPN ==
    /\ inst = "PN"
    /\ header # None
    /\ dataP = None
    /\ dataP' = Some(data_transformation_PN(header[1]))
    /\ UNCHANGED <<runVars, objVars, tilesIn, data_v, recovered, header>>

\* detector.py 227-228
TransformMOS ==
    /\ inst # "PN"
    /\ header # None
    /\ dataP = None
    /\ dataP' = Some(data_transformation_MOS(header[1]))
    /\ UNCHANGED <<runVars, objVars, tilesIn, data_v, recovered, header>>

NextTransform ==
    \/ TransformPN
    \/ TransformMOS

InitTransform ==
    /\ inst \in Supported
    /\ novar = FALSE
    /\ render = FALSE
    /\ ds9 = FALSE
    /\ mta = 1
    /\ bs \in BoxSizes
    /\ dl \in DetectionLevels
    /\ outDir = TRUE
    /\ varFile = "absent"
    /\ data = <<0>>
    /\ InitRun
    /\ InitObjects
    /\ tilesIn = <<>>
    /\ data_v = None
    /\ recovered = None
    /\ header \in {Some(h) : h \in Headers}
    /\ dataP = None

SpecTransform == InitTransform /\ [][NextTransform]_vars

\* ------------------------------------------------------------------ claims
ExpectedVMatrix == [i \in Tiles |-> VariabilityComputation(data[i])]
ExpectedAreas ==
    [i \in Tiles |->
        VariableAreasDetection(ClampMedian(Median2(ExpectedVMatrix)), bs, dl,
                               ExpectedVMatrix[i])]

\* C1: in both parallel stages the list p.map returns holds at position i the
\* result of the task run on tile i, whatever the order in which the workers
\* finish; matrices, regions and sources are functions of the inputs alone.
C1_ResultsInTileOrder ==
    /\ v_matrix # <<>> => v_matrix = ExpectedVMatrix
    /\ variable_areas # <<>> => variable_areas = ExpectedAreas
    /\ sources # None => sources = Some(SourcesOf(ExpectedAreas, 1))

\* C1 witness: the detection map has returned although a later chunk came
\* back before an earlier one, with some tile flagged and some not.
C1_Witness ==
    /\ pc = "positions"
    /\ \E a, b \in 1..Len(arrivals) : a < b /\ arrivals[a] > arrivals[b]
    /\ \E i, j \in Tiles : variable_areas[i] # {} /\ variable_areas[j] = {}
    /\ v_matrix = ExpectedVMatrix

\* C2: the median handed to the detection tasks is the global median of all
\* tiles' matrices with a floor of 0.75: never below 0.75, exactly 0.75 when
\* the computed median is below it, the computed median otherwise.
C2_MedianClamped ==
    median # None =>
        /\ median[1] >= 150
        /\ Median2(v_matrix) < 150 => median[1] = 150
        /\ Median2(v_matrix) >= 150 => median[1] = Median2(v_matrix)
        /\ \A i \in Tiles : taskMedian[i] # None => taskMedian[i] = median

\* C2 witness: all matrices zero, and a detection task was handed 0.75.
C2_Witness ==
    /\ pc = "map2"
    /\ N > 1
    /\ \A i \in Tiles : v_matrix[i] = <<0>>
    /\ \E i \in Tiles : taskMedian[i] = Some(150)

\* C3 as claimed: a sky_coord call that times out on a Source whose sky
\* fields are unset kills the subprocess and leaves the fields unset.
C3_TimeoutKills ==
    (call.op = "sky_coord" /\ call.input = "timeout" /\ call.unsetBefore) =>
        /\ call.killed
        /\ SkyUnset(srcs[call.src][1])

\* C4 as claimed: a sky_coord call that times out, or whose response lacks
\* a marker line, returns without raising.
C4_EnrichmentFailureReturns ==
    (call.op = "sky_coord" /\ call.input \in {"timeout", "nomarker"}) => call.raised = ""

\* C5 as claimed: the exit codes of a photon-extraction abort, of a
\* dead-time-extraction abort and of any other abort are pairwise different.
C5_ExitCodesPairwiseDistinct ==
    /\ abortCause = "photons" =>
            exitCode \notin {Some(ExitStatus(GtiExit)), Some(ExitStatus(OpenFilesExit))}
    /\ abortCause = "gti" =>
            exitCode \notin {Some(ExitStatus(PhotonsExit)), Some(ExitStatus(OpenFilesExit))}
    /\ abortCause \in {"dir", "log"} =>
            exitCode \notin {Some(ExitStatus(PhotonsExit)), Some(ExitStatus(GtiExit))}

\* C5 amended: a photon-extraction abort and a dead-time-extraction abort end
\* with the same exit code, -2 (status 254), and no other ending of the run,
\* normal or not, has that status.
C5_ExtractionAbortsShareCode ==
    /\ abortCause \in {"photons", "gti"} <=> exitCode = Some(254)
    /\ abortCause = "dir" => exitCode = Some(255)
    /\ abortCause \in {"log", "task"} => exitCode = Some(1)
    /\ pc = "done" => exitCode = Some(0)

\* C5 witness: the run aborted on the dead-time file after reading events.
C5_Witness ==
    /\ abortCause = "gti"
    /\ photonsCalled
    /\ exitCode = Some(254)

NoTaskStarted ==
    /\ \A i \in Tiles : execCount[i] = 0 /\ tstate[i] = "pending"
    /\ arrivals = <<>>

\* C6 as claimed: at an extraction abort no task has started and no output
\* file, the log included, has been created or written.
C6_NoOutputAtAbort ==
    abortCause \in {"photons", "gti"} =>
        /\ NoTaskStarted
        /\ logFile = "absent"
        /\ logText = {}
        /\ ~regFile
        /\ varFile # "new"

\* C6 amended: at an extraction abort no task has started and neither the
\* variability/raster file nor the region file has been written, no mosaic
\* or source list exists; the log file was created by open_files, holds the
\* abort message and is closed.
C6_NoDataOutputAtAbort ==
    abortCause \in {"photons", "gti"} =>
        /\ pc = "exited"
        /\ NoTaskStarted
        /\ ~regFile
        /\ varFile # "new"
        /\ mosaic = None /\ sources = None /\ v_matrix = <<>>
        /\ outDir
        /\ logFile = "closed"
        /\ ("abort_" \o abortCause) \in logText

\* C6 witness: abort on the event file of a supported instrument.
C6_Witness ==
    /\ abortCause = "photons"
    /\ inst \in Supported
    /\ photonsCalled
    /\ logFile = "closed"

\* C7 as claimed: for an instrument other than PN, M1, M2 no output file is
\* ever opened, no extractor called, no mosaic or transform recipe applied.
C7_UnknownInstrumentRejected ==
    inst \notin Supported =>
        /\ logFile = "absent"
        /\ ~photonsCalled /\ ~gtiCalled
        /\ mosaic = None /\ img_v = None
        /\ pc # "done"

\* C8: once a tile task has failed, no source list is produced and neither
\* the region file nor the variability/raster file is written; a mosaic
\* exists only if it was built from every tile's matrix, and the run never
\* goes past the failed map.
C8_FailedTaskAborts ==
    /\ failedIn # {} =>
        /\ sources = None
        /\ ~regFile
        /\ varFile # "new"
        /\ pc \in {"map1", "map2", "crashed"}
        /\ "map1" \in failedIn => (mosaic = None /\ v_matrix = <<>> /\ pc # "map2")
    /\ mosaic # None =>
        /\ Len(mosaic[1].tiles) = N
        /\ \A i \in Tiles : mosaic[1].tiles[i] = VariabilityComputation(data[i])

\* C8 witness: a detection task failed after the mosaic was built from all
\* tiles, the other tiles' results came back, and the run ended there.
C8_Witness ==
    /\ pc = "crashed"
    /\ failedIn = {"map2"}
    /\ N > 1
    /\ \E i \in Tiles : tstate[i] = "done"
    /\ mosaic # None
    /\ sources = None /\ ~regFile

MapOver == pc \in {"config", "positions"} \/ (pc = "crashed" /\ abortCause = "task")
ChunkFailedBefore(i) == \E j \in ChunkTiles(ChunkOf(i)) : j < i /\ tstate[j] = "failed"

\* C9 as claimed, in its finite form: at most mta tile tasks run at a time,
\* each tile has one task, and when a map is over every tile's task has been
\* executed.
C9_EveryTileExecuted ==
    /\ Cardinality(Running) <= mta
    /\ \A i \in Tiles : execCount[i] <= 1
    /\ MapOver => \A i \in Tiles : execCount[i] = 1

C9_Safety ==
    /\ Cardinality(Running) <= mta
    /\ \A i \in Tiles : execCount[i] <= 1
    /\ \A i \in Tiles : execCount[i] = 1 <=> tstate[i] \in {"running", "done", "failed"}
    /\ MapOver => \A i \in Tiles : execCount[i] = 1 \/ ChunkFailedBefore(i)
    /\ pc \in {"config", "positions"} => \A i \in Tiles : execCount[i] = 1

\* C9 amended: at most mta tile tasks run at a time, each tile's task runs at
\* most once, and in either stage every tile's task is eventually executed
\* unless an earlier tile of its chunk (Pool.map hands the workers chunks of
\* ceil(n / (4 * mta)) consecutive tiles) has failed.
C9_BoundedPool ==
    /\ []C9_Safety
    /\ InMap ~> (\A i \in Tiles : i \in Executed \/ ChunkFailedBefore(i))

\* C9 witness: more tiles than workers, chunks of two tiles, every worker
\* busy, tiles still waiting.
C9_Witness ==
    /\ InMap
    /\ N > mta
    /\ CS > 1
    /\ Cardinality(Running) = mta
    /\ \E i \in Tiles : tstate[i] = "pending"
    /\ \E i \in Tiles : tstate[i] = "done"

Constructed == {k \in 1..MaxSources : srcs[k] # None}

Cells(m) == {<<i, j>> : i \in 1..Rows(m), j \in 1..Cols(m)}
Pixels(i) == {<<t, r, c>> \in (1..TileCount(i)) \X (1..TileRows(i)) \X (1..TileCols(i)) : TRUE}

\* C11: for PN (12 tiles), M1 and M2 (7 tiles) the mosaic holds every tile
\* pixel in exactly one cell, no cell holds two, every other cell is zero,
\* and slicing a tile back out of the mosaic gives the original tile, shape
\* and values.
C11_MosaicRoundTrip ==
    /\ data_v # None =>
        /\ \A p \in Pixels(inst) :
             tilesIn[p[1]][p[2]][p[3]] # 0 =>
                Cardinality({q \in Cells(data_v[1]) :
                    data_v[1][q[1]][q[2]] = tilesIn[p[1]][p[2]][p[3]]}) = 1
        /\ Cardinality({q \in Cells(data_v[1]) : data_v[1][q[1]][q[2]] # 0})
             = Cardinality({p \in Pixels(inst) : tilesIn[p[1]][p[2]][p[3]] # 0})
        /\ \A i \in 1..Rows(data_v[1]) : Len(data_v[1][i]) = Cols(data_v[1])
    /\ recovered # None =>
        /\ recovered[1].tile = tilesIn[recovered[1].ccd + 1]
        /\ Rows(recovered[1].tile) = TileRows(inst)
        /\ Cols(recovered[1].tile) = TileCols(inst)

\* C11 witness: a MOS mosaic of tiles whose pixels all differ, four zero
\* corners in it, and the last CCD cut back out.
C11_Witness ==
    /\ inst = "M1"
    /\ tilesIn = Labelled("M1")
    /\ data_v # None
    /\ Cardinality({q \in Cells(data_v[1]) : data_v[1][q[1]][q[2]] = 0}) > 0
    /\ recovered # None
    /\ recovered[1].ccd = 6
    /\ recovered[1].tile = tilesIn[7]

\* C12: for both transformations and every header whose projected limits
\* lie within the legal limits, the four paddings are non-negative, the
\* resampled size plus the two paddings is 648 along each axis, and the
\* returned raster is 648 by 648.
C12_PaddedToCanonicalSize ==
    dataP # None =>
        LET t == dataP[1] IN
        /\ \A w \in {t.padX[1], t.padX[2], t.padY[1], t.padY[2]} : w >= 0
        /\ t.dataT[1] + t.padY[1] + t.padY[2] = CanonicalSize
        /\ t.dataT[2] + t.padX[1] + t.padX[2] = CanonicalSize
        /\ t.dataP.raised = ""
        /\ t.dataP.shape = Some(<<CanonicalSize, CanonicalSize>>)

\* The same for data_transformation_PN alone.
C12_PNPaddedToCanonicalSize == inst = "PN" => C12_PaddedToCanonicalSize

\* C13: with --novar the variability computation is skipped when the
\* variability file already exists and the detector is applied (variability
\* computed and written) when none exists; the renderers only ever run on a
\* variability file that exists.
C13_NovarFallsBackToDetector ==
    /\ (novar /\ vf) => (~photonsCalled /\ v_matrix = <<>> /\ varFile = "old")
    /\ (novar /\ ~vf /\ pc = "done") => (photonsCalled /\ varFile = "new")
    /\ \A r \in rendered : r[2] # "absent"

\* A detection task of tile i has started: it holds the median it was given.
DetectionStarted(i) == i \in DOMAIN taskMedian /\ taskMedian[i] # None
C14_Phased ==
    /\ pc \in {"start", "novar", "photons", "gti", "submit1", "map1"} =>
          (median = None /\ \A i \in Tiles : ~DetectionStarted(i))
    /\ pc \in {"config", "median", "map2"} =>
          v_matrix = ExpectedVMatrix
    /\ pc \in {"config", "median"} => \A i \in Tiles : tstate[i] = "done"
    /\ \A i \in Tiles : DetectionStarted(i) =>
          /\ v_matrix = ExpectedVMatrix
          /\ median = Some(ClampMedian(Median2(v_matrix)))
          /\ taskMedian[i] = median
C14_MedianReadOnly ==
    (pc = "map2" /\ \E i \in Tiles : DetectionStarted(i)) =>
        (median' = median /\ bs' = bs /\ dl' = dl)
\* C14: the two parallel stages are strictly phased. No detection task
\* starts before every tile's variability task has completed and the median
\* has been computed and clamped; every detection task gets the same
\* median, and the median, box size and detection level do not change
\* while detection tasks run.
C14_StrictlyPhased == []C14_Phased /\ [][C14_MedianReadOnly]_vars

\* C14 witness: the detection stage under way, one detection task done with
\* the median it was given, another running, another not yet started.
C14_Witness ==
    /\ pc = "map2"
    /\ \E i, j, k \in Tiles :
        /\ tstate[i] = "done" /\ DetectionStarted(i)
        /\ tstate[j] = "running" /\ taskMedian[j] = median
        /\ tstate[k] = "pending"

SkySet(s) == \A f \in SkyFields : s[f] # None
\* C15: sky_coord updates the sky fields all-or-nothing: after any call,
\* returned or failed, a Source has all four of ra, dec, x, y set or all
\* four still None.
C15_SkyFieldsAllOrNothing ==
    \A k \in Constructed : SkyUnset(srcs[k][1]) \/ SkySet(srcs[k][1])

====
